---- MODULE Spec2Model ----
(***************************************************************************)
(* A model of ch2_OOP.py: the CreditCard / PredatoryCreditCard classes,    *)
(* the Progression iterator family, and the __main__ driver.               *)
(*                                                                         *)
(* Three specifications share the variables:                               *)
(*   Spec            one card object and the calls a client can make on it *)
(*   SpecProgression one progression object and the calls on it            *)
(*   SpecDemo        the __main__ driver, statement by statement           *)
(* Python numbers are modelled as integers (Python ints are unbounded, so  *)
(* no width applies).  None is the empty tuple, a number v is <<v>>.       *)
(***************************************************************************)
EXTENDS Integers, Sequences, FiniteSets, TLC

VARIABLES
    card,      \* the card object (self) of Spec
    op,        \* the last call made on the object: name, argument, result
    called,    \* the names of the methods called on the card so far
    prog,      \* the progression object (self) of SpecProgression
    args,      \* the arguments the progression was constructed with
    produced,  \* the values __next__ has returned so far, in order
    stdout,    \* the lines printed so far
    pc,        \* the source line the driver is about to execute (0: not running)
    status,    \* "idle" | "running" | "success" | "error" (driver's exit)
    wallet,    \* the driver's list of cards
    val,       \* the driver's loop variable of line 184
    c,         \* the driver's loop variable of line 189
    j          \* the loop variable of print_progression's generator (line 126)

vars == <<card, op, called, prog, args, produced, stdout, pc, status, wallet, val, c, j>>

objVars == <<card, called>>
progVars == <<prog, args, produced>>
demoVars == <<pc, status, wallet, val, c, j>>

----------------------------------------------------------------------------
(* Bounds of the model *)

MaxLimit == 3
MaxPrice == 4
MaxBalance == 12
MaxParam == 2
MaxCalls == 6
MaxPrint == 2
MaxLines == 3

Limits == (0 - MaxLimit)..MaxLimit
Prices == (0 - MaxPrice)..MaxPrice
\* 1 + apr is a perfect twelfth power, so that pow(1 + apr, 1/12) is exact
Aprs == {0 - 1, 0, 4095}
Params == (0 - MaxParam)..MaxParam

None == << >>
Some(v) == <<v>>

NoObject == [cls |-> "none"]
NoCall == [name |-> "__init__", arg |-> 0, ret |-> "None", value |-> 0]
BoolStr(b) == IF b THEN "True" ELSE "False"

----------------------------------------------------------------------------
(* class CreditCard *)

CreditCard_init(customer, bank, acnt, limit) ==
    [cls |-> "CreditCard", customer |-> customer, bank |-> bank,
     account |-> acnt, limit |-> limit, balance |-> 0]

get_customer(self) == self.customer
get_bank(self) == self.bank
get_account(self) == self.account
get_limit(self) == self.limit
get_balance(self) == self.balance

\* a faulty variant: the test ignores the outstanding balance
CreditCard_charge_ignoring_balance(self, price) ==
    IF price > self.limit
    THEN [self |-> self, ret |-> FALSE]
    ELSE [self |-> [self EXCEPT !.balance = @ + price], ret |-> TRUE]

\* a faulty variant: a charge that exactly reaches the limit is denied
CreditCard_charge_strict(self, price) ==
    IF price + self.balance >= self.limit
    THEN [self |-> self, ret |-> FALSE]
    ELSE [self |-> [self EXCEPT !.balance = @ + price], ret |-> TRUE]

CreditCard_charge(self, price) ==
    IF price + self.balance > self.limit
    THEN [self |-> self, ret |-> FALSE]
    ELSE [self |-> [self EXCEPT !.balance = @ + price], ret |-> TRUE]

\* a faulty variant: the balance is clamped at zero
CreditCard_make_payment_clamped(self, amount) ==
    [self EXCEPT !.balance = IF @ - amount < 0 THEN 0 ELSE @ - amount]

CreditCard_make_payment(self, amount) ==
    [self EXCEPT !.balance = @ - amount]

----------------------------------------------------------------------------
(* class PredatoryCreditCard(CreditCard) *)

PredatoryCreditCard_init(customer, bank, acnt, limit, apr) ==
    [cls |-> "PredatoryCreditCard", customer |-> customer, bank |-> bank,
     account |-> acnt, limit |-> limit, balance |-> 0, apr |-> apr]

\* a faulty variant: the penalty is forgotten
PredatoryCreditCard_charge_no_penalty(self, price) ==
    CreditCard_charge(self, price)

PredatoryCreditCard_charge(self, price) ==
    LET r == CreditCard_charge(self, price)
        success == r.ret
    IN  IF ~success
        THEN [self |-> [r.self EXCEPT !.balance = @ + 5], ret |-> success]
        ELSE [self |-> r.self, ret |-> success]

\* IsPower(r, n, x): r^n = x, for x >= 0, multiplying no further than x
RECURSIVE PowerFrom(_, _, _, _)
PowerFrom(acc, r, n, x) ==
    IF n = 0 THEN acc = x
    ELSE IF r > 1 /\ acc > x THEN FALSE
    ELSE PowerFrom(acc * r, r, n - 1, x)

IsPower(r, n, x) == PowerFrom(1, r, n, x)

\* pow(x, 1/12) for x a perfect twelfth power
pow_twelfth(x) == CHOOSE r \in 0..x : IsPower(r, 12, x)

\* a faulty variant: interest is assessed whatever the sign of the balance
PredatoryCreditCard_process_month_unguarded(self) ==
    LET monthly_factor == pow_twelfth(1 + self.apr)
    IN  [self EXCEPT !.balance = @ * monthly_factor]

PredatoryCreditCard_process_month(self) ==
    IF self.balance > 0
    THEN LET monthly_factor == pow_twelfth(1 + self.apr)
         IN  [self EXCEPT !.balance = @ * monthly_factor]
    ELSE self

\* method resolution: the class of self selects the charge that runs
charge(self, price) ==
    IF self.cls = "PredatoryCreditCard"
    THEN PredatoryCreditCard_charge(self, price)
    ELSE CreditCard_charge(self, price)

----------------------------------------------------------------------------
(* Spec: one card and its client *)

InBounds(b) == (0 - MaxBalance) <= b /\ b <= MaxBalance

Init ==
    /\ \E limit \in Limits :
          \/ card = CreditCard_init("John Bowman", "California Savings",
                                    "5391 0375 9387 5309", limit)
          \/ \E apr \in Aprs :
                card = PredatoryCreditCard_init("John Bowman", "California Savings",
                                                "5391 0375 9387 5309", limit, apr)
    /\ op = NoCall
    /\ called = {}
    /\ prog = NoObject /\ args = NoObject /\ produced = << >>
    /\ stdout = << >>
    /\ pc = 0 /\ status = "idle" /\ wallet = << >> /\ val = 0 /\ c = 0 /\ j = 0

Charge ==
    \E price \in Prices :
        LET r == charge(card, price)
        IN  /\ InBounds(r.self.balance)
            /\ card' = r.self
            /\ op' = [name |-> "charge", arg |-> price, ret |-> BoolStr(r.ret), value |-> 0]
            /\ called' = called \cup {"charge"}
            /\ UNCHANGED <<progVars, stdout, demoVars>>

MakePayment ==
    \E amount \in Prices :
        LET s == CreditCard_make_payment(card, amount)
        IN  /\ InBounds(s.balance)
            /\ card' = s
            /\ op' = [name |-> "make_payment", arg |-> amount, ret |-> "None", value |-> 0]
            /\ called' = called \cup {"make_payment"}
            /\ UNCHANGED <<progVars, stdout, demoVars>>

ProcessMonth ==
    /\ card.cls = "PredatoryCreditCard"
    /\ LET s == PredatoryCreditCard_process_month(card)
       IN  /\ InBounds(s.balance)
           /\ card' = s
           /\ op' = [name |-> "process_month", arg |-> 0, ret |-> "None", value |-> 0]
           /\ called' = called \cup {"process_month"}
           /\ UNCHANGED <<progVars, stdout, demoVars>>

Next == Charge \/ MakePayment \/ ProcessMonth

Spec == Init /\ [][Next]_vars

----------------------------------------------------------------------------
(* Properties of the card classes, checked under Spec *)

IsBase == card.cls = "CreditCard"
IsPredatory == card.cls = "PredatoryCreditCard"
OnlyCharged == called = {"charge"}

\* C1 (as stated): for every base CreditCard, whatever its limit, after any
\* sequence of charge calls on the fresh card the balance is at most the limit.
C1_BalanceWithinAnyLimit ==
    (IsBase /\ OnlyCharged) => card.balance <= card.limit

\* C1 (amended): for every base CreditCard whose limit is not negative, after
\* any sequence of charge calls on the fresh card the balance is at most the
\* limit.
C1_BalanceWithinLimit ==
    (IsBase /\ OnlyCharged /\ card.limit >= 0) => card.balance <= card.limit

\* a card charged up to its limit, the last charge denied
C1_Witness ==
    /\ IsBase /\ OnlyCharged
    /\ card.limit > 0 /\ card.balance = card.limit
    /\ op.name = "charge" /\ op.ret = "False"

\* C2: a charge on a base CreditCard is denied exactly when balance + price
\* exceeds the limit, and then returns False and leaves the card as it was;
\* otherwise it returns True and adds the price to the balance.  The call
\* always returns one of the two values.
C2_BaseCharge ==
    [][(IsBase /\ op'.name = "charge") =>
          IF card.balance + op'.arg > card.limit
          THEN op'.ret = "False" /\ card' = card
          ELSE op'.ret = "True"
               /\ card' = [card EXCEPT !.balance = card.balance + op'.arg]]_vars

\* an accepted charge that brings the balance exactly to the limit
C2_Witness ==
    /\ IsBase /\ op.name = "charge" /\ op.ret = "True"
    /\ op.arg > 0 /\ card.balance = card.limit
    /\ "make_payment" \in called

\* C3: a charge on a PredatoryCreditCard, from any reachable state: when denied
\* (balance + price exceeds the limit) it returns False and the balance grows
\* by exactly 5; when accepted it returns True and the balance grows by exactly
\* the price.
C3_PredatoryCharge ==
    [][(IsPredatory /\ op'.name = "charge") =>
          IF card.balance + op'.arg > card.limit
          THEN op'.ret = "False" /\ card'.balance = card.balance + 5
          ELSE op'.ret = "True" /\ card'.balance = card.balance + op'.arg]_vars

\* a denied charge that took the balance above the limit
C3_Witness ==
    /\ IsPredatory /\ op.name = "charge" /\ op.ret = "False"
    /\ card.balance > card.limit /\ card.limit > 0
    /\ "process_month" \in called

\* C4: make_payment(amount) sets the balance to balance - amount whatever the
\* sign of the amount and of the balance, and changes nothing else of the card.
C4_MakePayment ==
    [][op'.name = "make_payment" =>
          card' = [card EXCEPT !.balance = card.balance - op'.arg]]_vars

\* a payment larger than the balance owed: the balance is negative afterwards
C4_Witness ==
    /\ op.name = "make_payment" /\ op.arg > 0
    /\ card.balance < 0 /\ card.balance + op.arg > 0

\* C8: process_month leaves the card as it is when the balance is not
\* positive, and otherwise multiplies the balance by the twelfth root of
\* 1 + apr; limit and apr are unchanged in both cases.
C8_ProcessMonth ==
    [][op'.name = "process_month" =>
          /\ IF card.balance > 0
             THEN \E f \in 0..(1 + card.apr) :
                     /\ IsPower(f, 12, 1 + card.apr)
                     /\ card'.balance = card.balance * f
             ELSE card'.balance = card.balance
          /\ card'.limit = card.limit
          /\ card'.apr = card.apr]_vars

\* a month of interest on a positive balance at a rate that is not zero
C8_Witness ==
    /\ op.name = "process_month" /\ card.apr = 4095
    /\ card.balance > 1

----------------------------------------------------------------------------
(* class Progression and its subclasses *)

Progression_init(start) ==
    [cls |-> "Progression", current |-> start]

ArithmeticProgression_init(increment, start) ==
    [cls |-> "ArithmeticProgression", current |-> start, increment |-> increment]

GeometricProgression_init(base, start) ==
    [cls |-> "GeometricProgression", current |-> start, base |-> base]

\* a faulty variant: the second term itself is stored as the preceding value
FibonacciProgression_init_second_as_prev(first, second) ==
    [cls |-> "FibonacciProgression", current |-> Some(first), prev |-> second]

\* second - first is evaluated on numbers: first is never None here
FibonacciProgression_init(first, second) ==
    [cls |-> "FibonacciProgression", current |-> Some(first), prev |-> second - first]

\* a faulty variant: a progression that ends once it has passed its bound
Progression_advance_finite(self) ==
    [self EXCEPT !.current = IF @[1] >= MaxParam THEN None ELSE Some(@[1] + 1)]

Progression_advance(self) ==
    [self EXCEPT !.current = Some(@[1] + 1)]

\* a faulty variant: the increment is added twice
ArithmeticProgression_advance_twice(self) ==
    [self EXCEPT !.current = Some(@[1] + self.increment + self.increment)]

ArithmeticProgression_advance(self) ==
    [self EXCEPT !.current = Some(@[1] + self.increment)]

GeometricProgression_advance(self) ==
    [self EXCEPT !.current = Some(@[1] * self.base)]

FibonacciProgression_advance(self) ==
    [self EXCEPT !.prev = self.current[1],
                 !.current = Some(self.prev + self.current[1])]

\* method resolution: the class of self selects the _advance that runs
advance(self) ==
    CASE self.cls = "ArithmeticProgression" -> ArithmeticProgression_advance(self)
      [] self.cls = "GeometricProgression" -> GeometricProgression_advance(self)
      [] self.cls = "FibonacciProgression" -> FibonacciProgression_advance(self)
      [] OTHER -> Progression_advance(self)

\* a faulty variant: an exhausted progression starts again from 0
Progression_next_resuming(self) ==
    IF self.current = None
    THEN [self |-> [self EXCEPT !.current = Some(0)], raised |-> "None", answer |-> 0]
    ELSE LET answer == self.current[1]
         IN  [self |-> advance(self), raised |-> "None", answer |-> answer]

\* __next__: raised is "StopIteration" or "None" (a normal return of answer)
Progression_next(self) ==
    IF self.current = None
    THEN [self |-> self, raised |-> "StopIteration", answer |-> 0]
    ELSE LET answer == self.current[1]
         IN  [self |-> advance(self), raised |-> "None", answer |-> answer]

\* the generator expression of print_progression: next(self) up to n times,
\* stopping at the first StopIteration
RECURSIVE next_n(_, _)
next_n(self, n) ==
    IF n = 0 THEN [self |-> self, terms |-> << >>, raised |-> FALSE]
    ELSE LET r == Progression_next(self)
         IN  IF r.raised = "StopIteration"
             THEN [self |-> r.self, terms |-> << >>, raised |-> TRUE]
             ELSE LET rest == next_n(r.self, n - 1)
                  IN  [self |-> rest.self, terms |-> <<r.answer>> \o rest.terms,
                       raised |-> rest.raised]

\* print_progression(n).  A StopIteration raised inside the generator
\* expression surfaces as RuntimeError (PEP 479, Python 3.7 on) and nothing is
\* printed; before that it ends the generator and the terms so far are printed.
Progression_print_progression(self, n, pep479) ==
    LET r == next_n(self, n)
    IN  IF r.raised /\ pep479
        THEN [self |-> r.self, terms |-> r.terms, lines |-> << >>, raised |-> "RuntimeError"]
        ELSE [self |-> r.self, terms |-> r.terms, lines |-> <<r.terms>>, raised |-> "None"]

----------------------------------------------------------------------------
(* SpecProgression: one progression and its client *)

Starts == {None} \cup {Some(v) : v \in Params}

InitProgression ==
    /\ \/ \E start \in Starts :
             /\ prog = Progression_init(start)
             /\ args = [cls |-> "Progression", start |-> start]
       \/ \E increment \in Params, start \in Starts :
             /\ prog = ArithmeticProgression_init(increment, start)
             /\ args = [cls |-> "ArithmeticProgression", start |-> start,
                        increment |-> increment]
       \/ \E base \in Params, start \in Starts :
             /\ prog = GeometricProgression_init(base, start)
             /\ args = [cls |-> "GeometricProgression", start |-> start, base |-> base]
       \/ \E first \in Params, second \in Params :
             /\ prog = FibonacciProgression_init(first, second)
             /\ args = [cls |-> "FibonacciProgression", start |-> Some(first),
                        second |-> second]
    /\ produced = << >>
    /\ op = NoCall
    /\ stdout = << >>
    /\ card = NoObject /\ called = {}
    /\ pc = 0 /\ status = "idle" /\ wallet = << >> /\ val = 0 /\ c = 0 /\ j = 0

CallNext ==
    LET r == Progression_next(prog)
    IN  /\ Len(produced) < MaxCalls
        /\ prog' = r.self
        /\ IF r.raised = "StopIteration"
           THEN /\ op' = [name |-> "__next__", arg |-> 0, ret |-> "StopIteration", value |-> 0]
                /\ produced' = produced
           ELSE /\ op' = [name |-> "__next__", arg |-> 0, ret |-> "value", value |-> r.answer]
                /\ produced' = Append(produced, r.answer)
        /\ UNCHANGED <<args, stdout, objVars, demoVars>>

CallPrintProgression ==
    \E n \in 0..MaxPrint, pep479 \in BOOLEAN :
        LET r == Progression_print_progression(prog, n, pep479)
        IN  /\ Len(produced) + n <= MaxCalls
            /\ Len(stdout) < MaxLines
            /\ prog' = r.self
            /\ produced' = produced \o r.terms
            /\ stdout' = stdout \o r.lines
            /\ op' = [name |-> "print_progression", arg |-> n, ret |-> r.raised, value |-> 0]
            /\ UNCHANGED <<args, objVars, demoVars>>

NextProgression == CallNext \/ CallPrintProgression

SpecProgression == InitProgression /\ [][NextProgression]_vars

----------------------------------------------------------------------------
(* Properties of the progressions, checked under SpecProgression *)

RECURSIVE Power(_, _)
Power(b, n) == IF n = 0 THEN 1 ELSE b * Power(b, n - 1)

\* the k-th term of the progression the constructor arguments describe
Term(k) ==
    CASE args.cls = "Progression" -> args.start[1] + (k - 1)
      [] args.cls = "ArithmeticProgression" -> args.start[1] + (k - 1) * args.increment
      [] args.cls = "GeometricProgression" -> args.start[1] * Power(args.base, k - 1)

NumericStart == args.start # None

\* C5: for the base, arithmetic and geometric progressions with a numeric
\* start, the k-th value __next__ returns is the start value with the advance
\* rule applied k-1 times (+1, +increment, *base), each call returns the value
\* current held before it, and current is one advance step past the last
\* value returned.
C5_KthTerm ==
    (args.cls \in {"Progression", "ArithmeticProgression", "GeometricProgression"}
       /\ NumericStart) =>
        /\ \A k \in 1..Len(produced) : produced[k] = Term(k)
        /\ prog.current = Some(Term(Len(produced) + 1))
        /\ (op.name = "__next__" => op.value = produced[Len(produced)])

\* a geometric progression -1, -2, -4, -8: the fourth call has returned -8
C5_Witness ==
    /\ args.cls = "GeometricProgression" /\ args.base = 2
    /\ args.start = Some(0 - 1)
    /\ Len(produced) >= 4 /\ op.name = "__next__" /\ op.value = 0 - 8

\* C6: the first two terms a FibonacciProgression(first, second) produces are
\* first and second, and every later term is the sum of the two before it.
C6_Fibonacci ==
    args.cls = "FibonacciProgression" =>
        /\ (Len(produced) >= 1 => produced[1] = args.start[1])
        /\ (Len(produced) >= 2 => produced[2] = args.second)
        /\ \A k \in 3..Len(produced) : produced[k] = produced[k - 1] + produced[k - 2]

\* a generalized Fibonacci progression that has produced at least four terms
C6_Witness ==
    /\ args.cls = "FibonacciProgression"
    /\ args.start = Some(MaxParam) /\ args.second = 0 - 1
    /\ Len(produced) >= 4

\* C7: once current is None it stays None, and every __next__ call from then
\* on raises StopIteration, returns no value and advances nothing.
C7_ExhaustionPermanent ==
    [][prog.current = None =>
          /\ prog' = prog
          /\ produced' = produced
          /\ (op'.name = "__next__" => op'.ret = "StopIteration")]_vars

\* __next__ has been called on an exhausted progression
C7_Witness ==
    /\ prog.current = None
    /\ op.name = "__next__" /\ op.ret = "StopIteration"

\* C9: a progression of any of the four classes constructed with numbers never
\* has current = None, and no call on it ends in StopIteration (or in the
\* RuntimeError a StopIteration becomes inside print_progression).
C9_NeverExhausted ==
    NumericStart =>
        /\ prog.current # None
        /\ op.ret \notin {"StopIteration", "RuntimeError"}

\* a base progression that has produced as many terms as the bound allows
C9_Witness ==
    /\ args.cls = "Progression" /\ NumericStart
    /\ Len(produced) = MaxCalls /\ produced[MaxCalls] > MaxParam

----------------------------------------------------------------------------
(* SpecDemo: the __main__ driver, one statement (or loop test) per step.   *)
(* pc is the source line about to run.                                     *)

\* lines 180-182: the cards appended to the wallet, by source line
DemoCard(line) ==
    CASE line = 180 -> CreditCard_init("John Bowman", "California Savings",
                                       "5391 0375 9387 5309", 2500)
      [] line = 181 -> CreditCard_init("John Bowman", "California Federal",
                                       "3485 0399 3395 1954", 3500)
      [] line = 182 -> CreditCard_init("John Bowman", "California Finance",
                                       "5391 0375 9387 5309", 5000)

\* lines 190-194: what each print statement writes about card w
DemoCardLine(line, w) ==
    CASE line = 190 -> <<"Customer =", get_customer(w)>>
      [] line = 191 -> <<"Bank =", get_bank(w)>>
      [] line = 192 -> <<"Account =", get_account(w)>>
      [] line = 193 -> <<"Limit =", get_limit(w)>>
      [] line = 194 -> <<"Balance =", get_balance(w)>>

\* lines 201-219: the label printed before each progression
DemoLabel(line) ==
    CASE line = 201 -> "Default progression:"
      [] line = 204 -> "Arithmetic progression with increment 5:"
      [] line = 207 -> "Arithmetic progression with increment 5 and start 2:"
      [] line = 210 -> "Geometric progression with default base:"
      [] line = 213 -> "Geometric progression with base 3:"
      [] line = 216 -> "Fibonacci progression with default start values:"
      [] line = 219 -> "Fibonacci progression with start values 4 and 6:"

\* lines 202-220: the progression constructed on each line, defaults filled in
DemoProgression(line) ==
    CASE line = 202 -> Progression_init(Some(0))
      [] line = 205 -> ArithmeticProgression_init(5, Some(0))
      [] line = 208 -> ArithmeticProgression_init(5, Some(2))
      [] line = 211 -> GeometricProgression_init(2, Some(1))
      [] line = 214 -> GeometricProgression_init(3, Some(1))
      [] line = 217 -> FibonacciProgression_init(0, 1)
      [] line = 220 -> FibonacciProgression_init(4, 6)

\* a faulty variant: the pay-down loop stops at 200
PayDownTest_200(w) == get_balance(w) > 200

\* line 195: the test of the pay-down loop
PayDownTest(w) == get_balance(w) > 100

InitDemo ==
    /\ pc = 179 /\ status = "running"
    /\ wallet = << >> /\ val = 0 /\ c = 0 /\ j = 0
    /\ stdout = << >>
    /\ card = NoObject /\ called = {} /\ op = NoCall
    /\ prog = NoObject /\ args = NoObject /\ produced = << >>

Running(lines) == status = "running" /\ pc \in lines

\* line 179: wallet = []
L179_NewWallet ==
    /\ Running({179})
    /\ wallet' = << >>
    /\ pc' = 180
    /\ UNCHANGED <<status, val, c, j, stdout, objVars, op, progVars>>

\* lines 180-182: wallet.append(CreditCard(...))
L180_Append ==
    /\ Running({180, 181, 182})
    /\ wallet' = Append(wallet, DemoCard(pc))
    /\ pc' = IF pc = 182 THEN 184 ELSE pc + 1
    /\ UNCHANGED <<status, val, c, j, stdout, objVars, op, progVars>>

\* line 184: for val in range(1, 17)
L184_ForVal ==
    /\ Running({184})
    /\ IF val + 1 < 17
       THEN val' = val + 1 /\ pc' = 185
       ELSE val' = val /\ pc' = 189
    /\ UNCHANGED <<status, wallet, c, j, stdout, objVars, op, progVars>>

\* lines 185-187: wallet[i].charge((i+1)*val), the result dropped
L185_Charge ==
    /\ Running({185, 186, 187})
    /\ LET i == pc - 185
           r == charge(wallet[i + 1], (i + 1) * val)
       IN  wallet' = [wallet EXCEPT ![i + 1] = r.self]
    /\ pc' = IF pc = 187 THEN 184 ELSE pc + 1
    /\ UNCHANGED <<status, val, c, j, stdout, objVars, op, progVars>>

\* line 189: for c in range(3); c holds the number of cards already visited
L189_ForC ==
    /\ Running({189})
    /\ IF c < 3
       THEN c' = c + 1 /\ pc' = 190
       ELSE c' = c /\ pc' = 200
    /\ UNCHANGED <<status, wallet, val, j, stdout, objVars, op, progVars>>

\* lines 190-194: the five print statements about wallet[c]
L190_PrintCard ==
    /\ Running(190..194)
    /\ stdout' = Append(stdout, DemoCardLine(pc, wallet[c]))
    /\ pc' = pc + 1
    /\ UNCHANGED <<status, wallet, val, c, j, objVars, op, progVars>>

\* line 195: while wallet[c].get_balance() > 100
L195_While ==
    /\ Running({195})
    /\ pc' = IF PayDownTest(wallet[c]) THEN 196 ELSE 198
    /\ UNCHANGED <<status, wallet, val, c, j, stdout, objVars, op, progVars>>

\* line 196: wallet[c].make_payment(100)
L196_Pay ==
    /\ Running({196})
    /\ wallet' = [wallet EXCEPT ![c] = CreditCard_make_payment(@, 100)]
    /\ pc' = 197
    /\ UNCHANGED <<status, val, c, j, stdout, objVars, op, progVars>>

\* line 197: print('New balance =', ...), back to the loop test
L197_PrintBalance ==
    /\ Running({197})
    /\ stdout' = Append(stdout, <<"New balance =", get_balance(wallet[c])>>)
    /\ pc' = 195
    /\ UNCHANGED <<status, wallet, val, c, j, objVars, op, progVars>>

\* lines 198 and 200: print()
L198_PrintBlank ==
    /\ Running({198, 200})
    /\ stdout' = Append(stdout, << >>)
    /\ pc' = IF pc = 198 THEN 189 ELSE 201
    /\ UNCHANGED <<status, wallet, val, c, j, objVars, op, progVars>>

\* lines 201, 204, ..., 219: print(label)
L201_PrintLabel ==
    /\ Running({201, 204, 207, 210, 213, 216, 219})
    /\ stdout' = Append(stdout, <<DemoLabel(pc)>>)
    /\ pc' = pc + 1
    /\ UNCHANGED <<status, wallet, val, c, j, objVars, op, progVars>>

\* lines 202, 205, ..., 220: the progression is constructed and
\* print_progression(10) entered
L202_Construct ==
    /\ Running({202, 205, 208, 211, 214, 217, 220})
    /\ prog = NoObject
    /\ prog' = DemoProgression(pc)
    /\ produced' = << >>
    /\ j' = 0
    /\ UNCHANGED <<pc, status, wallet, val, c, stdout, objVars, op, args>>

\* line 126, inside print_progression(10): the generator's next(self) for one
\* j of range(n); a StopIteration here ends the program with RuntimeError
L126_Next ==
    /\ Running({202, 205, 208, 211, 214, 217, 220})
    /\ prog # NoObject
    /\ j < 10
    /\ LET r == Progression_next(prog)
       IN  IF r.raised = "StopIteration"
           THEN status' = "error" /\ UNCHANGED <<prog, produced, j>>
           ELSE /\ prog' = r.self
                /\ produced' = Append(produced, r.answer)
                /\ j' = j + 1
                /\ status' = status
    /\ UNCHANGED <<pc, wallet, val, c, stdout, objVars, op, args>>

\* line 126: range(n) is used up, the joined terms are printed and the
\* statement is over; after line 220 the program ends
L126_Print ==
    /\ Running({202, 205, 208, 211, 214, 217, 220})
    /\ prog # NoObject
    /\ j = 10
    /\ stdout' = Append(stdout, produced)
    /\ prog' = NoObject
    /\ IF pc = 220
       THEN pc' = pc /\ status' = "success"
       ELSE pc' = pc + 2 /\ status' = status
    /\ UNCHANGED <<wallet, val, c, j, produced, objVars, op, args>>

NextDemo ==
    \/ L179_NewWallet \/ L180_Append \/ L184_ForVal \/ L185_Charge
    \/ L189_ForC \/ L190_PrintCard \/ L195_While \/ L196_Pay
    \/ L197_PrintBalance \/ L198_PrintBlank \/ L201_PrintLabel
    \/ L202_Construct \/ L126_Next \/ L126_Print

\* the interpreter always executes the next statement
SpecDemo == InitDemo /\ [][NextDemo]_vars /\ WF_vars(NextDemo)

----------------------------------------------------------------------------
(* Properties of the driver, checked under SpecDemo *)

DemoDone ==
    /\ status = "success"
    /\ Len(wallet) = 3
    /\ \A i \in 1..3 : get_balance(wallet[i]) <= 100

\* C10: the driver terminates without an error, and when it has, the pay-down
\* loop has left every card with a balance of at most 100.
C10_DemoTerminates ==
    /\ <>[]DemoDone
    /\ [](status # "error")
    /\ [](pc > 198 => \A i \in 1..3 : get_balance(wallet[i]) <= 100)

\* the program has ended after printing the last Fibonacci progression, the
\* three cards paid down to 36, 72 and 8
C10_Witness ==
    /\ status = "success" /\ pc = 220
    /\ produced = <<4, 6, 10, 16, 26, 42, 68, 110, 178, 288>>
    /\ get_balance(wallet[1]) = 36
    /\ get_balance(wallet[2]) = 72
    /\ get_balance(wallet[3]) = 8

====
